---- MODULE Spec2Model ----
(***************************************************************************)
(* Model of src/src/worker.py: main() and get_courses(), the login loop,   *)
(* the per-course window-open loop, exam attachment, window closing and    *)
(* the classified process exits.                                           *)
(*                                                                         *)
(* The browser is the environment.  A click on a course's trigger cell     *)
(* asks the browser for a detail window; the window shows up in            *)
(* driver.window_handles at some later moment, or never.  The program      *)
(* reads len(driver.window_handles) at lines 182, 188, 193 and 219; the    *)
(* labels of pc are those line numbers.                                    *)
(***************************************************************************)
EXTENDS Integers, Sequences, FiniteSets, TLC

\* ---------------------------------------------------------------- bounds
MaxTries == 2        \* largest --windowTries value explored
MaxSemesters == 2    \* largest number of <option>s of the semester select
MaxRows == 2         \* largest number of course rows of one semester table
MaxCourses == 2      \* largest number of course rows of all tables together
MaxPending == 2      \* most windows the browser has yet to show at one time
MaxStrLen == 3       \* longest cell text given to get_int and get_float
MaxPad == 1          \* most blanks on either side of a status cell's text
MaxExamRows == 4     \* largest number of rows of an exam table

\* ------------------------------------------------------------- constants
OK == 0
INVALID_LOGIN == 0 - 1
CRASH == 0 - 2
UNCAUGHT == 1        \* exit status of the interpreter on an uncaught exception

WrongLoginText == "Benutzername oder Passwort falsch"

\* window_handles holds the owner of each window: the main window, or the
\* course row whose trigger click created it.
MainOwner == <<0, 0>>
Footer == <<0, 1>>

CourseIds == (1..MaxSemesters) \X (1..MaxRows)

\* The <tr> rows of the table of semester s when it has n course rows: the
\* course rows in table order, then the summary row.
TableRows(s, n) == [r \in 1..(n + 1) |-> IF r <= n THEN <<s, r>> ELSE Footer]

RECURSIVE SumSeq(_)
SumSeq(seq) == IF seq = <<>> THEN 0 ELSE Head(seq) + SumSeq(Tail(seq))

\* All portals within the bounds: one table per semester option.
Portals ==
    UNION { { [s \in 1..len |-> TableRows(s, cnt[s])] :
                cnt \in { c \in [1..len -> 0..MaxRows] :
                             SumSeq(c) <= MaxCourses } } :
            len \in 0..MaxSemesters }

VARIABLES
    pc,              \* position in main()/get_courses(), a line number label
    windowTries,     \* args.windowTries
    dry,             \* args.dry
    portal,          \* the semester tables the portal serves
    i,               \* loop counter i (lines 119 and 181)
    pageOpened,      \* line 120
    retries,         \* line 140
    failures,        \* line 141
    navigations,     \* number of driver.get(args.url) calls
    unameTyped,      \* send_keys(uname) done
    credsSubmitted,  \* send_keys(pwd) and logIn_btn.click() done
    h1Text,          \* h1 text of the login result page, "missing" if none shown
    overviewVisited, \* link000307 clicked
    main_window,     \* line 160
    window_handles,  \* driver.window_handles, owners in creation order
    current,         \* index in window_handles of the focused window
    pending,         \* windows asked for by a click and not yet shown
    semester_idx,    \* line 165, counts from 0
    semester_len,    \* line 163
    rows,            \* rows of line 170 still to be visited
    course,          \* the Course of line 178
    clicks,          \* number of course_data[5].click() of the current course
    courses,         \* line 162
    exitCode,        \* argument of exit(), meaningful when pc = "exited"
    stderr,          \* what was written to stderr
    stdout,          \* what was written to stdout
    fn,              \* the function applied to a cell text or an exam table
    cell_text,       \* the cell text it is given, a sequence of characters
    exam_rows,       \* the rows of the exam table it is given
    result           \* what it returned

vars == <<pc, windowTries, dry, portal, i, pageOpened, retries, failures,
          navigations, unameTyped, credsSubmitted, h1Text, overviewVisited,
          main_window, window_handles, current, pending, semester_idx,
          semester_len, rows, course, clicks, courses, exitCode, stderr,
          stdout, fn, cell_text, exam_rows, result>>

argVars == <<windowTries, dry, portal>>
loginVars == <<pageOpened, navigations, unameTyped, credsSubmitted, h1Text,
               overviewVisited>>
windowVars == <<main_window, window_handles, current, pending>>
loopVars == <<semester_idx, semester_len, rows, course, clicks>>
outVars == <<exitCode, stderr, stdout>>
fnVars == <<fn, cell_text, exam_rows, result>>

NoCourse == [ID |-> MainOwner, Exams |-> <<>>]

Init ==
    /\ pc = "l127"
    /\ windowTries \in 0..MaxTries
    /\ dry \in BOOLEAN
    /\ portal \in Portals
    /\ i = 0
    /\ pageOpened = FALSE
    /\ retries = 0
    /\ failures = 0
    /\ navigations = 0
    /\ unameTyped = FALSE
    /\ credsSubmitted = FALSE
    /\ h1Text = "missing"
    /\ overviewVisited = FALSE
    /\ main_window = <<>>
    /\ window_handles = <<MainOwner>>
    /\ current = 1
    /\ pending = [c \in CourseIds |-> 0]
    /\ semester_idx = 0
    /\ semester_len = 0
    /\ rows = <<>>
    /\ course = NoCourse
    /\ clicks = 0
    /\ courses = <<>>
    /\ exitCode = OK
    /\ stderr = <<>>
    /\ stdout = <<>>
    /\ fn = "none"
    /\ cell_text = <<>>
    /\ exam_rows = <<>>
    /\ result = <<>>

\* ------------------------------------------------------------ process exit
\* doErrorExit(code, msg): one JSON object on stderr, then exit(code.value).
ErrorObject(code, hasMsg) ==
    [structured |-> TRUE, exitCode |-> code, message |-> hasMsg]

doErrorExit(code, hasMsg) ==
    /\ stderr' = Append(stderr, ErrorObject(code, hasMsg))
    /\ exitCode' = code
    /\ pc' = "exited"
    /\ stdout' = stdout

\* Variant: the except clause of main() writes the courses collected so far
\* before it exits.
RaiseNoSuchElementWithOutput ==
    /\ stderr' = Append(stderr, ErrorObject(CRASH, FALSE))
    /\ exitCode' = CRASH
    /\ pc' = "exited"
    /\ stdout' = Append(stdout, courses)

\* A NoSuchElementException that leaves get_courses: main() logs it and
\* calls doErrorExit(STATUSCODE.CRASH) without a message.
RaiseNoSuchElement == doErrorExit(CRASH, FALSE)

\* Any other exception leaves main() as well: the interpreter prints a
\* traceback and ends the process with status 1.
RaiseUncaught ==
    /\ stderr' = Append(stderr, [structured |-> FALSE, exitCode |-> UNCAUGHT,
                                 message |-> TRUE])
    /\ exitCode' = UNCAUGHT
    /\ pc' = "exited"
    /\ stdout' = stdout

\* ------------------------------------------------------------- login page
\* The loop condition of line 127.
\* Variant: the last attempt of the budget is never made.
LoginLoopCondOffByOne == i + 1 < windowTries

LoginLoopCond == i < windowTries

\* One pass of the while loop of line 127: navigate, wait, look for the
\* username field.
OpenLoginPage ==
    /\ pc = "l127"
    /\ LoginLoopCond
    /\ navigations' = navigations + 1
    /\ \E found \in BOOLEAN :
         IF found
         THEN /\ unameTyped' = TRUE
              /\ pageOpened' = TRUE
              /\ i' = i
              /\ pc' = "l140"
         ELSE /\ i' = i + 1
              /\ pc' = "l127"
              /\ UNCHANGED <<unameTyped, pageOpened>>
    /\ UNCHANGED <<fnVars, argVars, retries, failures, credsSubmitted, h1Text,
                   overviewVisited, windowVars, loopVars, courses, outVars>>

LoginLoopExit ==
    /\ pc = "l127"
    /\ ~LoginLoopCond
    /\ pc' = "l140"
    /\ UNCHANGED <<fnVars, argVars, i, retries, failures, loginVars, windowVars,
                   loopVars, courses, outVars>>

\* Lines 140-146.
SeedCounters ==
    /\ pc = "l140"
    /\ retries' = i
    /\ failures' = 0
    /\ IF ~pageOpened
       THEN doErrorExit(CRASH, TRUE)
       ELSE /\ pc' = "l148"
            /\ UNCHANGED outVars
    /\ UNCHANGED <<fnVars, argVars, i, loginVars, windowVars, loopVars, courses>>

\* Lines 148-149: fill in the password and press the login button.  Either
\* element may be missing, which raises NoSuchElementException.  The page
\* that comes back carries the h1 that line 152 reads.
SubmitCredentials ==
    /\ pc = "l148"
    /\ \E present \in BOOLEAN, text \in {"missing", WrongLoginText, "other"} :
         IF present
         THEN /\ credsSubmitted' = TRUE
              /\ h1Text' = text
              /\ pc' = "l151"
              /\ UNCHANGED outVars
         ELSE /\ RaiseNoSuchElement
              /\ UNCHANGED <<credsSubmitted, h1Text>>
    /\ UNCHANGED <<fnVars, argVars, i, retries, failures, pageOpened, navigations,
                   unameTyped, overviewVisited, windowVars, loopVars, courses>>

\* Variant: any h1 on the result page counts as a failed login.
IsWrongLoginAnyH1(text) == text # "missing"

\* Line 152: the login counts as failed only if the h1 exists and carries
\* exactly the known text; a missing h1 (NoSuchElementException, line 155)
\* and any other text fall through.
IsWrongLogin(text) == text = WrongLoginText

\* Lines 151-156.
ClassifyLogin ==
    /\ pc = "l151"
    /\ IF IsWrongLogin(h1Text)
       THEN doErrorExit(INVALID_LOGIN, FALSE)
       ELSE /\ pc' = "l158"
            /\ UNCHANGED outVars
    /\ UNCHANGED <<fnVars, argVars, i, retries, failures, loginVars, windowVars,
                   loopVars, courses>>

\* Lines 158-163: open the course overview, remember the main window, count
\* the semester options.  link000307 or the semester select may be missing.
\* The click replaces the login result page, and its h1 with it.
NavigateOverview ==
    /\ pc = "l158"
    /\ \E linkPresent \in BOOLEAN, selectPresent \in BOOLEAN :
         IF ~linkPresent
         THEN /\ RaiseNoSuchElement
              /\ UNCHANGED <<overviewVisited, h1Text, main_window,
                             semester_len, semester_idx>>
         ELSE /\ overviewVisited' = TRUE
              /\ h1Text' = "missing"
              /\ main_window' = window_handles[1]
              /\ IF ~selectPresent
                 THEN /\ RaiseNoSuchElement
                      /\ UNCHANGED <<semester_len, semester_idx>>
                 ELSE /\ semester_len' = Len(portal)
                      /\ semester_idx' = 0
                      /\ pc' = "l165"
                      /\ UNCHANGED outVars
    /\ UNCHANGED <<fnVars, argVars, i, retries, failures, pageOpened, navigations,
                   unameTyped, credsSubmitted, window_handles, current,
                   pending, rows, course, clicks, courses>>

\* ------------------------------------------------------ semesters and rows
\* The slice [:-1] of line 170.
ButLast(seq) == SubSeq(seq, 1, Len(seq) - 1)

\* Variant: the slice [:-1] is left out.
CourseRowsWithFooter(idx) == portal[idx + 1]

\* Line 170: the rows of the selected semester's table without the last one.
CourseRows(idx) == ButLast(portal[idx + 1])

\* Lines 165-170: select the next semester and list its rows, or leave the
\* loop.  semester_idx counts from 0 as range() does.  Line 166 looks the
\* semester select up again; if it is gone, NoSuchElementException.
SelectSemester ==
    /\ pc = "l165"
    /\ IF semester_idx < semester_len
       THEN \E selectPresent \in BOOLEAN :
              IF selectPresent
              THEN /\ rows' = CourseRows(semester_idx)
                   /\ pc' = "l170"
                   /\ UNCHANGED outVars
              ELSE /\ RaiseNoSuchElement
                   /\ rows' = rows
       ELSE /\ pc' = "l230"
            /\ rows' = rows
            /\ UNCHANGED outVars
    /\ UNCHANGED <<fnVars, argVars, i, retries, failures, loginVars, windowVars,
                   semester_idx, semester_len, course, clicks, courses>>

\* Lines 170-181: take the next row, build its Course with no exams yet and
\* reset i; after the last row go on to the next semester.
NextCourse ==
    /\ pc = "l170"
    /\ IF rows = <<>>
       THEN /\ semester_idx' = semester_idx + 1
            /\ pc' = "l165"
            /\ UNCHANGED <<rows, course, i, clicks>>
       ELSE /\ course' = [ID |-> Head(rows), Exams |-> <<>>]
            /\ rows' = Tail(rows)
            /\ i' = 0
            /\ clicks' = 0
            /\ pc' = "l182"
            /\ UNCHANGED semester_idx
    /\ UNCHANGED <<fnVars, argVars, retries, failures, loginVars, windowVars,
                   semester_len, courses, outVars>>

\* ------------------------------------------------------- window-open loop
\* Variant: the last attempt of the budget is never made.
WindowLoopCondOffByOne == i + 1 < windowTries /\ Len(window_handles) = 1

\* Variant: the loop does not look at the number of windows.
WindowLoopCondNoLen == i < windowTries

\* The loop condition of line 182.
WindowLoopCond == i < windowTries /\ Len(window_handles) = 1

\* Number of windows the browser has yet to show.
RECURSIVE SumOver(_, _)
SumOver(f, S) ==
    IF S = {} THEN 0
    ELSE LET c == CHOOSE x \in S : TRUE IN f[c] + SumOver(f, S \ {c})

PendingCount == SumOver(pending, CourseIds)

\* Lines 182-187: click the trigger cell and count the attempt.  The click
\* asks the browser for a window of this course; the sleep follows.  A
\* browser that already owes MaxPending windows ignores the click.
ClickTrigger ==
    /\ pc = "l182"
    /\ WindowLoopCond
    /\ clicks' = clicks + 1
    /\ pending' = IF PendingCount < MaxPending
                  THEN [pending EXCEPT ![course.ID] = @ + 1]
                  ELSE pending
    /\ i' = i + 1
    /\ pc' = "l188"
    /\ UNCHANGED <<fnVars, argVars, retries, failures, loginVars, main_window,
                   window_handles, current, semester_idx, semester_len, rows,
                   course, courses, outVars>>

\* Line 182 with a false condition: the loop ends.
WindowLoopExit ==
    /\ pc = "l182"
    /\ ~WindowLoopCond
    /\ pc' = "l191"
    /\ UNCHANGED <<fnVars, argVars, i, retries, failures, loginVars, windowVars,
                   loopVars, courses, outVars>>

\* Lines 188-189, after the sleep: break if a second window is there.
CheckAfterWait ==
    /\ pc = "l188"
    /\ pc' = IF Len(window_handles) # 1 THEN "l191" ELSE "l182"
    /\ UNCHANGED <<fnVars, argVars, i, retries, failures, loginVars, windowVars,
                   loopVars, courses, outVars>>

\* Lines 191-196.  In the branch of line 193 the f-string of line 194 reads
\* args.WindowCheckWait; the parser defines windowCheckWait (line 49), so the
\* read raises AttributeError before failures is touched, and main() catches
\* only NoSuchElementException.
CheckOpened ==
    /\ pc = "l191"
    /\ retries' = retries + i
    /\ IF Len(window_handles) = 1
       THEN RaiseUncaught
       ELSE /\ pc' = "l198"
            /\ UNCHANGED outVars
    /\ UNCHANGED <<fnVars, argVars, i, failures, loginVars, windowVars, loopVars,
                   courses>>

\* The positions whose next step reads or changes driver.window_handles.
\* A window that shows up anywhere else is first seen at the next of these.
WindowReads == {"l182", "l188", "l191", "l219", "l221", "l227"}

\* The browser shows a window that a click asked for, at any moment before
\* the program looks at the windows again.
WindowAppears ==
    /\ pc \in WindowReads
    /\ \E c \in CourseIds :
         /\ pending[c] > 0
         /\ pending' = [pending EXCEPT ![c] = @ - 1]
         /\ window_handles' = Append(window_handles, c)
    /\ UNCHANGED <<pc, fnVars, argVars, i, retries, failures, loginVars, main_window,
                   current, loopVars, courses, outVars>>

\* ------------------------------------------------------ exams and closing
\* The exams listed in the detail window of a course: the model keeps only
\* whose exams they are.
ExamsShown(owner) == <<owner>>

\* The window line 198 switches to: driver.window_handles[1].
SecondWindow == 2

\* Lines 198-216: switch to the second window, read its exam table, attach
\* the exams to the course and append the course.
ParseExams ==
    /\ pc = "l198"
    /\ current' = SecondWindow
    /\ course' = [course EXCEPT !.Exams = ExamsShown(window_handles[SecondWindow])]
    /\ courses' = Append(courses, course')
    /\ pc' = "l219"
    /\ UNCHANGED <<fnVars, argVars, i, retries, failures, loginVars, main_window,
                   window_handles, pending, semester_idx, semester_len, rows,
                   clicks, outVars>>

\* Line 219.
CloseCheck ==
    /\ pc = "l219"
    /\ pc' = IF Len(window_handles) > 2 THEN "l221" ELSE "l227"
    /\ UNCHANGED <<fnVars, argVars, i, retries, failures, loginVars, windowVars,
                   loopVars, courses, outVars>>

\* Variant: the comparison of line 222 is inverted.
IsMainInverted(w) == w # main_window

\* Line 222: is this handle the main window's.
IsMain(w) == w = main_window

\* seq without its element at position n.
RemoveAt(seq, n) ==
    [k \in 1..(Len(seq) - 1) |-> IF k < n THEN seq[k] ELSE seq[k + 1]]

\* Position of the main window in a list of handles, 0 if it is not there.
IndexOfMain(seq) ==
    IF \E k \in 1..Len(seq) : IsMain(seq[k])
    THEN CHOOSE k \in 1..Len(seq) : IsMain(seq[k])
    ELSE 0

\* Lines 221-225 and 228: close every window of the list read at line 221
\* except the main one, then focus the main window.
CloseAllButMain ==
    /\ pc = "l221"
    /\ window_handles' = SelectSeq(window_handles, IsMain)
    /\ current' = IndexOfMain(window_handles')
    /\ pc' = "l170"
    /\ UNCHANGED <<fnVars, argVars, i, retries, failures, loginVars, main_window,
                   pending, loopVars, courses, outVars>>

\* Lines 227-228: close the focused window, then focus the main window.
CloseCurrent ==
    /\ pc = "l227"
    /\ window_handles' = RemoveAt(window_handles, current)
    /\ current' = IndexOfMain(window_handles')
    /\ pc' = "l170"
    /\ UNCHANGED <<fnVars, argVars, i, retries, failures, loginVars, main_window,
                   pending, loopVars, courses, outVars>>

\* Variant: driver.quit() is left out, only the focused window is closed.
ShutdownNoQuit ==
    /\ pc = "l230"
    /\ window_handles' = RemoveAt(window_handles, current)
    /\ pending' = pending
    /\ current' = 0
    /\ pc' = "l80"
    /\ UNCHANGED <<fnVars, argVars, i, retries, failures, loginVars, main_window,
                   loopVars, courses, outVars>>

\* Lines 230-237: close the focused window, quit the driver (which ends the
\* browser and every window with it), return the list.
Shutdown ==
    /\ pc = "l230"
    /\ window_handles' = <<>>
    /\ pending' = [c \in CourseIds |-> 0]
    /\ current' = 0
    /\ pc' = "l80"
    /\ UNCHANGED <<fnVars, argVars, i, retries, failures, loginVars, main_window,
                   loopVars, courses, outVars>>

\* Lines 80-86 of main(): print the list unless --dry, then exit(0).
MainReturn ==
    /\ pc = "l80"
    /\ stdout' = IF dry THEN stdout ELSE Append(stdout, courses)
    /\ exitCode' = OK
    /\ pc' = "exited"
    /\ UNCHANGED <<fnVars, argVars, i, retries, failures, loginVars, windowVars,
                   loopVars, courses, stderr>>

Next ==
    \/ OpenLoginPage
    \/ LoginLoopExit
    \/ SeedCounters
    \/ SubmitCredentials
    \/ ClassifyLogin
    \/ NavigateOverview
    \/ SelectSemester
    \/ NextCourse
    \/ ClickTrigger
    \/ WindowLoopExit
    \/ CheckAfterWait
    \/ CheckOpened
    \/ WindowAppears
    \/ ParseExams
    \/ CloseCheck
    \/ CloseAllButMain
    \/ CloseCurrent
    \/ Shutdown
    \/ MainReturn

Spec == Init /\ [][Next]_vars

\* The steps of the program itself: everything but the browser showing a
\* window.  The process is a single thread that runs until it exits.
Program ==
    \/ OpenLoginPage
    \/ LoginLoopExit
    \/ SeedCounters
    \/ SubmitCredentials
    \/ ClassifyLogin
    \/ NavigateOverview
    \/ SelectSemester
    \/ NextCourse
    \/ ClickTrigger
    \/ WindowLoopExit
    \/ CheckAfterWait
    \/ CheckOpened
    \/ ParseExams
    \/ CloseCheck
    \/ CloseAllButMain
    \/ CloseCurrent
    \/ Shutdown
    \/ MainReturn

FairSpec == Spec /\ WF_vars(Program)

\* ------------------------------------------------- cell texts and parsers
\* A text is a sequence of one-character strings.
Digits == {"0", "1", "2", "3", "4", "5", "6", "7", "8", "9"}

DigitValue(c) ==
    CASE c = "0" -> 0 [] c = "1" -> 1 [] c = "2" -> 2 [] c = "3" -> 3
      [] c = "4" -> 4 [] c = "5" -> 5 [] c = "6" -> 6 [] c = "7" -> 7
      [] c = "8" -> 8 [] c = "9" -> 9

\* The characters the explored cell texts are made of.
Alphabet == {"1", "5", ",", ".", "-", " ", "n", "a"}

Strings(n) == UNION { [1..k -> Alphabet] : k \in 0..n }

IsSpace(c) == c = " "

RECURSIVE LStrip(_)
LStrip(str) ==
    IF str # <<>> /\ IsSpace(Head(str)) THEN LStrip(Tail(str)) ELSE str

RECURSIVE RStrip(_)
RStrip(str) ==
    IF str # <<>> /\ IsSpace(str[Len(str)])
    THEN RStrip(SubSeq(str, 1, Len(str) - 1))
    ELSE str

\* str.strip()
Strip(str) == RStrip(LStrip(str))

\* str.replace(old, new) for single characters.
Replace(str, old, new) ==
    [k \in 1..Len(str) |-> IF str[k] = old THEN new ELSE str[k]]

\* str.startswith(prefix)
StartsWith(str, prefix) ==
    Len(str) >= Len(prefix) /\ SubSeq(str, 1, Len(prefix)) = prefix

AllDigits(str) == \A k \in 1..Len(str) : str[k] \in Digits

RECURSIVE DecimalValue(_)
DecimalValue(str) ==
    IF str = <<>> THEN 0
    ELSE 10 * DecimalValue(SubSeq(str, 1, Len(str) - 1))
           + DigitValue(str[Len(str)])

RECURSIVE Pow10(_)
Pow10(n) == IF n = 0 THEN 1 ELSE 10 * Pow10(n - 1)

IsSign(c) == c \in {"-", "+"}

\* The text without surrounding blanks and without its sign.
Unsigned(str) ==
    LET t == Strip(str) IN IF t # <<>> /\ IsSign(t[1]) THEN Tail(t) ELSE t

SignOf(str) ==
    LET t == Strip(str) IN IF t # <<>> /\ t[1] = "-" THEN 0 - 1 ELSE 1

ValueError == [exc |-> "ValueError", value |-> 0]

Returned(v) == [exc |-> "none", value |-> v]

\* int(str) (line 92): blanks around, an optional sign, then digits only.
\* Anything else raises ValueError.
PyInt(str) ==
    LET body == Unsigned(str) IN
    IF body # <<>> /\ AllDigits(body)
    THEN Returned(SignOf(str) * DecimalValue(body))
    ELSE ValueError

\* A float as a fraction num / den, or not-a-number.
Finite(num, den) == [kind |-> "finite", num |-> num, den |-> den]

NaN == [kind |-> "nan", num |-> 0, den |-> 1]

Nan3 == <<"n", "a", "n">>

\* Position of the first "." of str, 0 if there is none.
PointAt(str) ==
    IF \E k \in 1..Len(str) : str[k] = "."
    THEN CHOOSE k \in 1..Len(str) :
           str[k] = "." /\ \A j \in 1..(k - 1) : str[j] # "."
    ELSE 0

\* float(str) (line 101) on texts over Alphabet: blanks around, an optional
\* sign, then either nan or digits with at most one point and at least one
\* digit.  Anything else raises ValueError.
PyFloat(str) ==
    LET body == Unsigned(str)
        p == PointAt(body)
        whole == IF p = 0 THEN body ELSE SubSeq(body, 1, p - 1)
        frac == IF p = 0 THEN <<>> ELSE SubSeq(body, p + 1, Len(body))
    IN  IF body = Nan3 THEN Returned(NaN)
        ELSE IF /\ AllDigits(whole)
                /\ AllDigits(frac)
                /\ Len(whole) + Len(frac) > 0
             THEN Returned(Finite(SignOf(str) * DecimalValue(whole \o frac),
                                  Pow10(Len(frac))))
             ELSE ValueError

\* try ... except ValueError: pass, with the value set before the try.
ExceptValueError(outcome, default) ==
    IF outcome.exc = "ValueError" THEN Returned(default) ELSE outcome

\* Lines 89-95.
get_int(str) == ExceptValueError(PyInt(str), 0 - 1)

\* Lines 98-104.
get_float(str) ==
    ExceptValueError(PyFloat(Replace(str, ",", ".")), Finite(0 - 1, 1))

\* ------------------------------------------------------ completion status
Bestanden == <<"b", "e", "s", "t", "a", "n", "d", "e", "n">>

NichtBestanden == <<"n", "i", "c", "h", "t", " ">> \o Bestanden

Blanks(n) == [k \in 1..n |-> " "]

\* Status cell texts: the short texts, and the two status words with up to
\* MaxPad blanks on either side.
StatusTexts ==
    Strings(MaxStrLen)
      \cup { Blanks(l) \o w \o Blanks(r) :
               l \in 0..MaxPad, r \in 0..MaxPad,
               w \in {Bestanden, NichtBestanden} }

\* Variant: the cell text is compared as it is, without strip().
CompletionNoStrip(raw) ==
    IF raw # <<>>
    THEN IF raw = Bestanden THEN "Passed" ELSE "Failed"
    ELSE "Unknown"

\* Lines 172-177: the CourseCompletion of a row from course_data[4].text.
Completion(raw) ==
    IF Strip(raw) # <<>>
    THEN IF Strip(raw) = Bestanden THEN "Passed" ELSE "Failed"
    ELSE "Unknown"

\* ------------------------------------------------------------ exam table
Versuch == <<"V", "e", "r", "s", "u", "c", "h">>

Versuch1 == Versuch \o <<" ", "1">>

Versuch2 == Versuch \o <<" ", "2">>

VersuchA == Versuch \o <<" ", "a">>

ExamName == <<"a">>

\* A <tr> of the exam table: the number of its <td>s, the class attribute of
\* the first one and the text of the first one.
ExamRow(n, cls, first) == [ncells |-> n, class |-> cls, first |-> first]

\* The rows explored: an empty row, one-cell rows (attempt headers and
\* others), six-cell rows with and without the marker class.
ExamRowKinds ==
    {ExamRow(0, "", <<>>)}
      \cup {ExamRow(1, "level02", t) :
              t \in {Versuch1, Versuch2, VersuchA, ExamName}}
      \cup {ExamRow(6, "tbdata", t) : t \in {ExamName, Versuch1}}
      \cup {ExamRow(6, "tbsubhead", t) : t \in {ExamName, Versuch2}}

ExamTables == UNION { [1..k -> ExamRowKinds] : k \in 0..MaxExamRows }

\* "tbdata" in exam_elements[0].get_attribute("class"), line 208.
HasTbdata(cls) == cls = "tbdata"

\* exam_data[0][8:], line 213.
FromIndex8(str) == SubSeq(str, 9, Len(str))

\* Exam(attempt, exam_data[0], ...): the model keeps the attempt number and
\* the first cell.
Exam(attempt, name) == [Attempt |-> attempt, Name |-> name]

\* Variant: the test for an attempt header is made before the test for a
\* data row.
ExamStepHeaderFirst(st, row) ==
    LET data0 == Strip(row.first) IN
    IF row.ncells > 0 /\ StartsWith(data0, Versuch)
    THEN [st EXCEPT !.attempt = get_int(FromIndex8(data0)).value]
    ELSE IF row.ncells = 6 /\ HasTbdata(row.class)
         THEN [st EXCEPT !.exams = Append(@, Exam(st.attempt, data0))]
         ELSE st

\* Lines 204-213, one pass of the loop over the rows: st holds the list
\* exams and the current attempt.
ExamStep(st, row) ==
    LET data0 == Strip(row.first) IN
    IF row.ncells = 6 /\ HasTbdata(row.class)
    THEN [st EXCEPT !.exams = Append(@, Exam(st.attempt, data0))]
    ELSE IF row.ncells > 0 /\ StartsWith(data0, Versuch)
         THEN [st EXCEPT !.attempt = get_int(FromIndex8(data0)).value]
         ELSE st

RECURSIVE ExamLoop(_, _)
ExamLoop(st, table) ==
    IF table = <<>> THEN st
    ELSE ExamLoop(ExamStep(st, Head(table)), Tail(table))

\* Lines 201-215: the exams of an exam table.
ParseExamTable(table) ==
    ExamLoop([exams |-> <<>>, attempt |-> 0 - 1], table).exams

\* ------------------------------------------- the functions on their own
\* Everything of the scrape at rest; pc tells call from return.
ScrapeIdle ==
    /\ pc = "call"
    /\ windowTries = 0
    /\ dry = FALSE
    /\ portal = <<>>
    /\ i = 0
    /\ pageOpened = FALSE
    /\ retries = 0
    /\ failures = 0
    /\ navigations = 0
    /\ unameTyped = FALSE
    /\ credsSubmitted = FALSE
    /\ h1Text = "missing"
    /\ overviewVisited = FALSE
    /\ main_window = <<>>
    /\ window_handles = <<MainOwner>>
    /\ current = 1
    /\ pending = [c \in CourseIds |-> 0]
    /\ semester_idx = 0
    /\ semester_len = 0
    /\ rows = <<>>
    /\ course = NoCourse
    /\ clicks = 0
    /\ courses = <<>>
    /\ exitCode = OK
    /\ stderr = <<>>
    /\ stdout = <<>>

scrapeVars == <<argVars, i, retries, failures, loginVars, windowVars,
                loopVars, courses, outVars>>

FnInit ==
    /\ ScrapeIdle
    /\ result = <<>>
    /\ \/ /\ fn \in {"get_int", "get_float"}
          /\ cell_text \in Strings(MaxStrLen)
          /\ exam_rows = <<>>
       \/ /\ fn = "completion"
          /\ cell_text \in StatusTexts
          /\ exam_rows = <<>>
       \/ /\ fn = "exams"
          /\ cell_text = <<>>
          /\ exam_rows \in ExamTables

CallGetInt ==
    /\ pc = "call"
    /\ fn = "get_int"
    /\ result' = get_int(cell_text)
    /\ pc' = "return"
    /\ UNCHANGED <<fn, cell_text, exam_rows, scrapeVars>>

CallGetFloat ==
    /\ pc = "call"
    /\ fn = "get_float"
    /\ result' = get_float(cell_text)
    /\ pc' = "return"
    /\ UNCHANGED <<fn, cell_text, exam_rows, scrapeVars>>

CallCompletion ==
    /\ pc = "call"
    /\ fn = "completion"
    /\ result' = Completion(cell_text)
    /\ pc' = "return"
    /\ UNCHANGED <<fn, cell_text, exam_rows, scrapeVars>>

CallParseExams ==
    /\ pc = "call"
    /\ fn = "exams"
    /\ result' = ParseExamTable(exam_rows)
    /\ pc' = "return"
    /\ UNCHANGED <<fn, cell_text, exam_rows, scrapeVars>>

FnNext ==
    \/ CallGetInt
    \/ CallGetFloat
    \/ CallCompletion
    \/ CallParseExams

SpecFunctions == FnInit /\ [][FnNext]_vars

\* ------------------------------------------------------------ properties
Terminal == pc = "exited"

\* The course rows of the portal in traversal order: semesters by index,
\* rows in table order, summary rows left out.
RECURSIVE Flatten(_)
Flatten(tables) ==
    IF tables = <<>> THEN <<>> ELSE Head(tables) \o Flatten(Tail(tables))

NotFooter(r) == r # Footer

AllCourseRows == SelectSeq(Flatten(portal), NotFooter)

CourseIDs(list) == [k \in 1..Len(list) |-> list[k].ID]

IsPrefix(a, b) == Len(a) <= Len(b) /\ a = SubSeq(b, 1, Len(a))

\* C1: when the course's window never opened (one window after all
\* windowTries clicks), get_courses does not append the course, adds exactly
\* 1 to failures and has added exactly windowTries to retries.
C1_FailureCounted ==
    [][(pc = "l191" /\ pc' # pc /\ Len(window_handles) = 1)
         => /\ courses' = courses
            /\ failures' = failures + 1
            /\ retries' = retries + windowTries]_vars

\* C2: a course whose window did not open does not abort the run: the
\* orchestrator goes on to the next course row and the process has not
\* ended.
C2_RunContinues ==
    [][(pc = "l191" /\ pc' # pc /\ Len(window_handles) = 1)
         => pc' = "l170"]_vars

\* C3: every run ends with exit code 0, -1 or -2, and every exit with a
\* code other than 0 has written exactly one structured error object that
\* carries that exit code to stderr.
C3_ClassifiedExit ==
    Terminal =>
        /\ exitCode \in {OK, INVALID_LOGIN, CRASH}
        /\ exitCode = OK => stderr = <<>>
        /\ exitCode # OK =>
             /\ Len(stderr) = 1
             /\ stderr[1].structured
             /\ stderr[1].exitCode = exitCode

\* C4: when the window-open loop has ended and there is still only one
\* window, the trigger was clicked exactly windowTries times and
\* i = windowTries, and the step that follows takes the branch of line 193:
\* the course is not parsed.
C4_NeverOpened ==
    /\ [](pc = "l191" /\ Len(window_handles) = 1
            => i = windowTries /\ clicks = windowTries)
    /\ [][(pc = "l191" /\ pc' # pc /\ Len(window_handles) = 1)
            => pc' # "l198" /\ courses' = courses]_vars

C4_Witness ==
    /\ pc = "l191"
    /\ Len(window_handles) = 1
    /\ windowTries = MaxTries
    /\ clicks = MaxTries

\* C5: the trigger is clicked only while one window is open, each click
\* is counted as one attempt within the budget, and once a second window is
\* seen after attempt k the loop ends at once with i = k clicks made, the
\* window counts as opened and k is what is added to retries.
C5_OpenedOnAttemptK ==
    [][/\ clicks' = clicks + 1
            => Len(window_handles) = 1 /\ i' = clicks' /\ i' <= windowTries
       /\ (pc = "l188" /\ pc' # pc /\ Len(window_handles) > 1)
            => pc' = "l191" /\ i' = i /\ clicks' = clicks /\ i = clicks
       /\ (pc = "l191" /\ pc' # pc /\ Len(window_handles) > 1)
            => pc' = "l198" /\ retries' = retries + clicks]_vars

C5_Witness ==
    /\ pc = "l198"
    /\ windowTries = 2
    /\ clicks = 1
    /\ i = 1
    /\ Len(window_handles) = 2

\* C6: if the username field was found on none of the navigations, the run
\* ends with exit code -2 and an error object with a message, after exactly
\* windowTries navigations, with nothing typed or submitted and the course
\* overview not visited.
C6_LoginPageNeverOpened ==
    /\ ~pageOpened => pc \in {"l127", "l140", "exited"}
    /\ (~pageOpened /\ pc \in {"l140", "exited"}) =>
          /\ navigations = windowTries
          /\ ~unameTyped
          /\ ~credsSubmitted
          /\ ~overviewVisited
          /\ clicks = 0
    /\ (~pageOpened /\ Terminal) =>
          /\ exitCode = CRASH
          /\ stderr = <<ErrorObject(CRASH, TRUE)>>
          /\ stdout = <<>>

C6_Witness ==
    /\ Terminal
    /\ ~pageOpened
    /\ windowTries = MaxTries
    /\ navigations = MaxTries

\* C7: the value that seeds retries is the number of navigations made: k
\* when the username field is first found on navigation k, windowTries
\* when it is never found.
C7_RetriesSeed ==
    /\ pc = "l148" => retries = navigations
    /\ (Terminal /\ ~pageOpened) => retries = windowTries

\* C8: the login outcome is classified once.  With the known message on the
\* result page the run ends with exit code -1 and the overview was never
\* visited and no trigger clicked; with the h1 missing or carrying another
\* text the run goes on to the course overview and the semesters.
C8_LoginClassified ==
    /\ [][pc' = "l151" => pc \in {"l148", "l151"}]_vars
    /\ [][(pc = "l151" /\ pc' # pc) =>
            IF h1Text = WrongLoginText
            THEN /\ pc' = "exited"
                 /\ exitCode' = INVALID_LOGIN
                 /\ stderr' = <<ErrorObject(INVALID_LOGIN, FALSE)>>
            ELSE /\ pc' = "l158"
                 /\ stderr' = <<>>]_vars
    /\ []((Terminal /\ exitCode = INVALID_LOGIN) =>
            /\ credsSubmitted
            /\ h1Text = WrongLoginText
            /\ ~overviewVisited
            /\ clicks = 0
            /\ window_handles = <<MainOwner>>
            /\ courses = <<>>)
    /\ [][(overviewVisited' /\ ~overviewVisited)
            => credsSubmitted /\ pc = "l158" /\ h1Text # WrongLoginText]_vars

C8_Witness ==
    /\ Terminal
    /\ exitCode = INVALID_LOGIN
    /\ credsSubmitted

\* C9: the result list holds the course rows in traversal order at every
\* moment, and the list of a run that ends with exit code 0 is exactly the
\* non-footer rows of all semesters, each once, semesters by index and rows
\* in table order.
C9_OneRecordPerRow ==
    /\ IsPrefix(CourseIDs(courses), AllCourseRows)
    /\ (Terminal /\ exitCode = OK) => CourseIDs(courses) = AllCourseRows

C9_Witness ==
    /\ Terminal
    /\ exitCode = OK
    /\ Len(portal) = 2
    /\ Len(courses) = 2
    /\ courses[1].ID[1] # courses[2].ID[1]
    /\ stdout = <<courses>>

\* C10: every course of the result list carries the exams shown in a window
\* that its own trigger opened.
C10_OwnExams ==
    \A k \in 1..Len(courses) : courses[k].Exams = ExamsShown(courses[k].ID)

\* C12: the window-closing step of a course ends with exactly one window
\* open, the main window, and with the focus on it.
C12_OnlyMainLeft ==
    [][(pc \in {"l221", "l227"} /\ pc' = "l170")
         => /\ window_handles' = <<main_window>>
            /\ current' = 1]_vars

\* C13: from the capture of the main handle until the shutdown the main
\* window is open, it is the first and only window with that handle, the
\* recorded handle never changes, and every closing step keeps it.
BetweenCaptureAndShutdown ==
    /\ main_window # <<>>
    /\ pc \notin {"l80", "exited"}

C13_MainWindowKept ==
    /\ [](BetweenCaptureAndShutdown =>
            /\ main_window = MainOwner
            /\ Len(window_handles) >= 1
            /\ window_handles[1] = main_window
            /\ \A k \in 2..Len(window_handles) : window_handles[k] # main_window)
    /\ [][main_window # <<>> => main_window' = main_window]_vars
    /\ [][(pc \in {"l221", "l227"} /\ pc' # pc)
            => /\ Len(window_handles') >= 1
               /\ window_handles'[1] = main_window
               /\ Len(window_handles') < Len(window_handles)]_vars

C13_Witness ==
    /\ pc = "l170"
    /\ Len(courses) = 2
    /\ Len(window_handles) = 2
    /\ window_handles[1] = main_window

\* C17: the list is returned only after the shutdown: when get_courses has
\* returned no browser window is open, every semester index was visited,
\* the shutdown started with the focus on the main window, and nothing is
\* written to stdout while a window is open.
C17_ShutdownThenReturn ==
    /\ []((pc = "l80" \/ (Terminal /\ exitCode = OK)) =>
            /\ window_handles = <<>>
            /\ semester_len = Len(portal)
            /\ semester_idx = semester_len
            /\ rows = <<>>)
    /\ [](stdout # <<>> => window_handles = <<>>)
    /\ [][(pc = "l230" /\ pc' # pc) =>
            /\ current = 1
            /\ window_handles[current] = main_window
            /\ pc' = "l80"
            /\ courses' = courses
            /\ stdout' = <<>>]_vars

C17_Witness ==
    /\ Terminal
    /\ exitCode = OK
    /\ Len(portal) = 2
    /\ Len(courses) = 2
    /\ window_handles = <<>>

\* Number of course rows of a table.
CountRows(table) == Len(SelectSeq(table, NotFooter))

RECURSIVE RowsFrom(_)
RowsFrom(t) ==
    IF t > Len(portal) THEN 0 ELSE CountRows(portal[t]) + RowsFrom(t + 1)

\* The semester loop has begun.
LoopStarted == overviewVisited /\ semester_len = Len(portal)

\* The semester with index semester_idx has not been listed yet: the run is
\* at line 165, or it ended there (the only CRASH exit inside the loop).
AtLoopHead == pc = "l165" \/ (Terminal /\ exitCode = CRASH)

\* Course rows not taken from their table yet.
RemainingRows ==
    Len(rows) + RowsFrom(semester_idx + (IF AtLoopHead THEN 1 ELSE 2))

\* The row taken last is still being worked on.
InProgress == pc \in {"l182", "l188", "l191", "l198"}

\* Course rows whose processing is over.
CompletedRows ==
    Len(AllCourseRows) - RemainingRows - (IF InProgress THEN 1 ELSE 0)

\* C18: at every moment the number of courses in the result list plus
\* failures equals the number of course rows whose processing is over, at
\* exit code 0 it equals the number of all course rows, and appending a
\* course leaves failures unchanged.
C18_RowsConserved ==
    /\ LoopStarted => Len(courses) + failures = CompletedRows
    /\ (Terminal /\ exitCode = OK) =>
          Len(courses) + failures = Len(AllCourseRows)

\* C19: every run reaches one of the terminal states Done (exit code 0),
\* Failed(INVALID_LOGIN) (-1) or Failed(CRASH) (-2); both loops make at most
\* windowTries passes; retries never decreases and grows by at most
\* windowTries in one step.
C19_Terminates ==
    /\ <>(Terminal /\ exitCode \in {OK, INVALID_LOGIN, CRASH})
    /\ [](i <= windowTries /\ clicks <= windowTries
            /\ navigations <= windowTries)
    /\ [][retries' >= retries /\ retries' <= retries + windowTries]_vars

\* C20: stdout receives the course list at most once, and only in a run that
\* ends with exit code 0; a run that ends with another exit code has written
\* nothing to stdout, whatever it had collected.
C20_OutputOnlyOnSuccess ==
    /\ Len(stdout) <= 1
    /\ stdout # <<>> =>
          /\ Terminal
          /\ exitCode = OK
          /\ ~dry
          /\ stdout = <<courses>>
    /\ (Terminal /\ exitCode # OK) => stdout = <<>>

C20_Witness ==
    /\ Terminal
    /\ exitCode = CRASH
    /\ Len(courses) >= 1
    /\ stdout = <<>>
    /\ ~dry

\* C15 as stated: the status follows from the cell text as it is read:
\* empty gives Unknown, exactly "bestanden" gives Passed, every other
\* non-empty text gives Failed.
C15_CompletionOfRawText ==
    (fn = "completion" /\ pc = "return") =>
        /\ cell_text = <<>> => result = "Unknown"
        /\ cell_text = Bestanden => result = "Passed"
        /\ (cell_text # <<>> /\ cell_text # Bestanden) => result = "Failed"

\* C15, amended: the status follows from the cell text without its
\* surrounding blanks: nothing left gives Unknown, exactly "bestanden" left
\* gives Passed, anything else gives Failed; every text gets exactly one of
\* the three.
C15_CompletionOfStrippedText ==
    (fn = "completion" /\ pc = "return") =>
        LET t == Strip(cell_text) IN
        /\ result \in {"Unknown", "Passed", "Failed"}
        /\ t = <<>> <=> result = "Unknown"
        /\ t = Bestanden <=> result = "Passed"
        /\ (t # <<>> /\ t # Bestanden) <=> result = "Failed"

C15_Witness ==
    /\ fn = "completion"
    /\ pc = "return"
    /\ cell_text = <<" ">> \o Bestanden
    /\ result = "Passed"

\* A decimal numeral: blanks around, an optional minus, then digits with at
\* most one decimal comma or point among them.
Separators == {",", "."}

LooksNumeric(str) ==
    LET t == Strip(str)
        body == IF t # <<>> /\ t[1] = "-" THEN Tail(t) ELSE t
    IN  /\ \A k \in 1..Len(body) : body[k] \in Digits \cup Separators
        /\ \E k \in 1..Len(body) : body[k] \in Digits
        /\ Cardinality({k \in 1..Len(body) : body[k] \in Separators}) <= 1

NumEq(a, b) ==
    /\ a.kind = "finite"
    /\ b.kind = "finite"
    /\ a.num * b.den = b.num * a.den

\* C16: get_int and get_float raise for no text; a text that is not a
\* number yields -1 from both; get_float gives the same value for a text
\* with decimal commas as for the text with points in their place.
C16_LenientParsers ==
    /\ (fn = "get_int" /\ pc = "return") =>
          /\ result.exc = "none"
          /\ ~LooksNumeric(cell_text) => result.value = 0 - 1
    /\ (fn = "get_float" /\ pc = "return") =>
          /\ result.exc = "none"
          /\ ~LooksNumeric(cell_text) => NumEq(result.value, Finite(0 - 1, 1))
          /\ result = get_float(Replace(cell_text, ",", "."))

\* A data row: six cells, the first with the marker class.
IsDataRow(row) == row.ncells = 6 /\ row.class = "tbdata"

\* An attempt header: a row that is no data row and whose first cell
\* starts with "Versuch".
IsHeaderRow(row) ==
    ~IsDataRow(row) /\ row.first \in {Versuch1, Versuch2, VersuchA}

\* The number an attempt header carries, -1 if it carries none.
HeaderNumber(first) ==
    CASE first = Versuch1 -> 1 [] first = Versuch2 -> 2 [] OTHER -> 0 - 1

\* The positions of the data rows of a table, in row order.
RECURSIVE DataRowsUpTo(_, _)
DataRowsUpTo(table, n) ==
    IF n = 0 THEN <<>>
    ELSE IF IsDataRow(table[n])
         THEN Append(DataRowsUpTo(table, n - 1), n)
         ELSE DataRowsUpTo(table, n - 1)

\* The attempt number in force at row j: that of the nearest header row
\* above it, -1 if there is none.
AttemptAt(table, j) ==
    LET above == {h \in 1..(j - 1) : IsHeaderRow(table[h])} IN
    IF above = {} THEN 0 - 1
    ELSE HeaderNumber(table[CHOOSE h \in above : \A g \in above : g <= h].first)

ExampleTable ==
    <<ExamRow(1, "level02", Versuch1), ExamRow(6, "tbdata", ExamName),
      ExamRow(1, "level02", Versuch2), ExamRow(6, "tbdata", ExamName)>>

\* C11: the exams parsed from a table are its data rows in row order, each
\* with the attempt number of the nearest attempt header above it, or -1 if
\* there is none; header rows and all other rows give no exam; the rows
\* header 1, data row, header 2, data row give two exams with attempts 1
\* and 2.
C11_ExamsTagged ==
    (fn = "exams" /\ pc = "return") =>
        LET at == DataRowsUpTo(exam_rows, Len(exam_rows)) IN
        /\ Len(result) = Len(at)
        /\ \A k \in 1..Len(at) :
             /\ result[k].Attempt = AttemptAt(exam_rows, at[k])
             /\ result[k].Name = exam_rows[at[k]].first
        /\ exam_rows = ExampleTable =>
             result = <<Exam(1, ExamName), Exam(2, ExamName)>>

C11_Witness ==
    /\ fn = "exams"
    /\ pc = "return"
    /\ exam_rows = ExampleTable
    /\ Len(result) = 2
    /\ result[1].Attempt = 1
    /\ result[2].Attempt = 2

====
